---- MODULE Spec2Model ----
(***************************************************************************)
(* A model of rwsort (src/src/rwsort/rwsort.c): the node comparator, the   *)
(* run buffer of sortRandom, the cascading merge of mergeFiles, the merge  *)
(* of presorted inputs of sortPresorted, and main.                         *)
(*                                                                         *)
(* A record is <<sport, proto>>; a node is <<sport, proto, key>>, the      *)
(* record followed by the bytes of the plug-in key.  Streams, temp files   *)
(* and the allocator are the environment: every call into them draws its   *)
(* result from the results the call can return.                            *)
(***************************************************************************)
EXTENDS Integers, Sequences, FiniteSets, TLC

(***************************************************************************)
(* Bounds of the model.                                                    *)
(***************************************************************************)
\* records that the input streams deliver in one run, in total
MaxRecs == 3
\* input streams named on the command line
MaxInputs == 3
\* recoverable faults of the environment in one run
MaxFaults == 1
\* MAX_MERGE_FILES of rwsort.h, scaled down
MAX_MERGE_FILES == 2
\* bits of a uint32_t and of a uint64_t, scaled down (size specification)
Uint32Bits == 4
Uint64Bits == 6

(***************************************************************************)
(* Constants of the program (rwsort.h is scaled down to the bounds).       *)
(***************************************************************************)
SORT_NUM_CHUNKS == 2
MIN_IN_CORE_RECORDS == 2
node_size == 2

FieldValues == 0 .. 1
\* the records the inputs deliver
Recs == {<<0, 0>>, <<0, 1>>, <<1, 0>>}
KeyValues == 0 .. 2
Nodes == FieldValues \X FieldValues \X KeyValues
ZeroNode == <<0, 0, 0>>

\* the --fields lists of the runs, and those the comparator is applied to
SortFieldLists == {<<"sport">>, <<"proto", "sport">>, <<"plugin", "sport">>}
CompareFieldLists ==
    {<<"sport">>, <<"proto">>, <<"sport", "proto">>, <<"proto", "sport">>,
     <<"plugin">>, <<"plugin", "sport">>, <<"proto", "plugin">>}
\* the --sort-buffer-size values of the runs, in bytes
SortBufferSizes == {5, 8, 10}
DEFAULT_SORT_BUFFER_SIZE == 8

Slots == 0 .. (MAX_MERGE_FILES - 1)

VARIABLES
    pc,                 \* position of the process
    presorted_input,    \* --presorted-input
    reverse,            \* --reverse
    sort_fields,        \* --fields
    sort_buffer_size,   \* --sort-buffer-size
    num_inputs,         \* number of input streams on the command line
    instreams,          \* per opened input, the records it has delivered
    input_rwios,        \* sortRandom: the open input (0 is NULL)
    record_buffer,      \* sortRandom: the nodes in the buffer
    buffer_recs, buffer_max_recs, buffer_chunk_recs, num_chunks,
    tmp,                \* temp files by index+1: [data, exists]
    temp_file_idx,
    tmp_idx_a, tmp_idx_b, tmp_idx_intermediate, j,
    open_count,
    fps,                \* mergeFiles: slot -> [file, pos]
    rwios,              \* sortPresorted: slot -> input (0 is NULL)
    recs,               \* slot -> scratch node
    heap,               \* slots in the heap
    lowest,
    fp_intermediate,    \* TRUE while the intermediate file is open
    no_more,            \* no_more_temps / no_more_inputs
    opened,             \* temp files with an open read handle
    out,                \* records in the final output
    out_hdr,            \* main wrote the header itself
    nwrites, last_rv,   \* calls of skStreamWriteRecord, and the last status
    events,             \* what the environment did to this run
    faults,
    cmp_fwd, cmp_rev,   \* comparator results (comparator specification)
    rec_to_bin_calls,   \* calls of a plug-in's rec_to_bin
    merge_entry,        \* the temp_idx mergeFiles was called with (-1: not called)
    pass_log,           \* mergeFiles: per pass, its range and destination
    alloc_bytes         \* bytes last asked of realloc, -1: none (size specification)

vars == <<pc, presorted_input, reverse, sort_fields, sort_buffer_size,
          num_inputs, instreams, input_rwios, record_buffer, buffer_recs,
          buffer_max_recs, buffer_chunk_recs, num_chunks, tmp, temp_file_idx,
          tmp_idx_a, tmp_idx_b, tmp_idx_intermediate, j, open_count, fps,
          rwios, recs, heap, lowest, fp_intermediate, no_more, opened, out,
          out_hdr, nwrites, last_rv, events, faults, cmp_fwd, cmp_rev,
          rec_to_bin_calls, merge_entry, pass_log, alloc_bytes>>

cfgVars == <<presorted_input, reverse, sort_fields, sort_buffer_size,
             num_inputs>>
bufVars == <<record_buffer, buffer_recs, buffer_max_recs, buffer_chunk_recs,
             num_chunks>>
mergeVars == <<tmp_idx_a, tmp_idx_b, tmp_idx_intermediate, j, open_count,
               fps, rwios, recs, heap, lowest, fp_intermediate, no_more,
               opened>>
outVars == <<out, out_hdr, nwrites, last_rv>>
cmpVars == <<cmp_fwd, cmp_rev>>
\* the history of mergeFiles, and of realloc
histVars == <<merge_entry, pass_log, alloc_bytes>>
\* the plug-in side: comparator results and key extraction
keyVars == <<cmp_fwd, cmp_rev, rec_to_bin_calls>>

(***************************************************************************)
(* Sequences.                                                              *)
(***************************************************************************)
Range(s) == {s[i] : i \in 1 .. Len(s)}
Count(s, x) == Cardinality({i \in 1 .. Len(s) : s[i] = x})
SameBag(s, t) == \A x \in Range(s) \cup Range(t) : Count(s, x) = Count(t, x)

RECURSIVE Flatten(_)
Flatten(ss) == IF ss = <<>> THEN <<>> ELSE Head(ss) \o Flatten(Tail(ss))

(***************************************************************************)
(* The comparator.                                                         *)
(***************************************************************************)
rwRecGetSPort(n) == n[1]
rwRecGetProto(n) == n[2]
PluginKey(n) == n[3]

\* the record a node carries
RecOf(n) == <<n[1], n[2]>>

\* RETURN_SORT_ORDER without the test of the reverse flag
RETURN_SORT_ORDER_noreverse(val, rev) == val

RETURN_SORT_ORDER(val, rev) == IF rev THEN -val ELSE val

\* RETURN_IF_SORTED with its second test repeating the first
RETURN_IF_SORTED_lessonly(fa, fb, rev) ==
    IF fa < fb THEN RETURN_SORT_ORDER(-1, rev)
    ELSE IF fb > fa THEN RETURN_SORT_ORDER(1, rev)
    ELSE 0

\* the value RETURN_IF_SORTED returns, 0 when it falls through
RETURN_IF_SORTED(fa, fb, rev) ==
    IF fa < fb THEN RETURN_SORT_ORDER(-1, rev)
    ELSE IF fa > fb THEN RETURN_SORT_ORDER(1, rev)
    ELSE 0

\* the bin_compare of a plug-in field: A - B
compareMaps(bin_a, bin_b) == bin_a - bin_b

\* one case of the switch: the value returned, 0 when the loop goes on
CompareField(f, a, b, rev) ==
    CASE f = "sport" -> RETURN_IF_SORTED(rwRecGetSPort(a), rwRecGetSPort(b), rev)
      [] f = "proto" -> RETURN_IF_SORTED(rwRecGetProto(a), rwRecGetProto(b), rev)
      [] OTHER ->
            LET rv == compareMaps(PluginKey(a), PluginKey(b))
            IN IF rv # 0 THEN RETURN_SORT_ORDER(rv, rev) ELSE 0

RECURSIVE CompareFrom(_, _, _, _, _)
CompareFrom(a, b, fields, rev, i) ==
    IF i > Len(fields) THEN 0
    ELSE LET r == CompareField(fields[i], a, b, rev)
         IN IF r # 0 THEN r ELSE CompareFrom(a, b, fields, rev, i + 1)

rwrecCompareWith(a, b, fields, rev) == CompareFrom(a, b, fields, rev, 1)

rwrecCompare(a, b) == rwrecCompareWith(a, b, sort_fields, reverse)

\* compHeapNodes with its two arguments taken in the order of the caller
compHeapNodes_unswapped(b, a) == rwrecCompare(recs[b], recs[a])

\* callback of the heap: note the order of the arguments
compHeapNodes(b, a) == rwrecCompare(recs[a], recs[b])

\* skHeapPeekTop: the entries no other entry is ordered before
HeapTop(h) == {x \in h : \A y \in h : compHeapNodes(x, y) >= 0}

IsSorted(s) == \A i \in 1 .. (Len(s) - 1) : rwrecCompare(s[i], s[i + 1]) <= 0

\* the sequence s without its i-th element
Without(s, i) == SubSeq(s, 1, i - 1) \o SubSeq(s, i + 1, Len(s))

\* every arrangement of the elements of s
RECURSIVE Arrangements(_)
Arrangements(s) ==
    IF Len(s) <= 1 THEN {s}
    ELSE UNION {{<<s[i]>> \o t : t \in Arrangements(Without(s, i))} :
                  i \in 1 .. Len(s)}

\* skQSort is not stable: any ordered arrangement of the buffer
skQSort(s) == {t \in Arrangements(s) : IsSorted(t)}

\* the buffer is stored in the order the records were read
SortedBuffer_asread(buf) == {buf}

\* sortRandom sorts the buffer in place before it stores or writes it
SortedBuffer(buf) == skQSort(buf)

\* number of plug-in fields of the key
key_num_fields == Cardinality({i \in 1 .. Len(sort_fields) : sort_fields[i] = "plugin"})

\* rwrecCompare(a, b) reaches the case of a plug-in field, where it calls
\* the field's bin_compare
PluginReached(a, b) ==
    \E i \in 1 .. Len(sort_fields) :
      /\ sort_fields[i] = "plugin"
      /\ \A k \in 1 .. (i - 1) : CompareField(sort_fields[k], a, b, reverse) = 0


(***************************************************************************)
(* The environment: what the calls into streams, temp files and the        *)
(* allocator can return.                                                   *)
(***************************************************************************)
\* the environment fails a call only while the run has faults left
Recoverable == faults < MaxFaults
\* a call that succeeds or fails
CallResults == IF Recoverable THEN BOOLEAN ELSE {TRUE}

NoRec == <<0, 0>>
\* skStreamReadRecord: a record, SKSTREAM_ERR_EOF, or another error; "xerr"
\* is a record whose key a plug-in's rec_to_bin failed to extract
ReadOutcomes ==
    [kind : {"rec"}, rec : Recs] \cup
    {[kind |-> "eof", rec |-> NoRec], [kind |-> "err", rec |-> NoRec],
     [kind |-> "xerr", rec |-> NoRec]}
\* fread on a temp file whose next node is at pos+1: the node, or end of
\* file, or a read error
FreadOutcomes(f, pos) ==
    (IF pos < Len(tmp[f + 1].data) THEN {"rec"} ELSE {"eof"}) \cup
    (IF Recoverable THEN {"err"} ELSE {})
\* skStreamWriteRecord
WriteStatuses == {"OK", "NONFATAL", "FATAL"}
SKSTREAM_ERROR_IS_FATAL(rv) == rv = "FATAL"
\* skTempFileOpen: a handle, or NULL with errno EMFILE/ENOMEM, or NULL with
\* another errno
OpenOutcomes(f) ==
    (IF tmp[f + 1].exists THEN {"ok"} ELSE {"ERR"}) \cup
    (IF Recoverable THEN {"EMFILE", "ERR"} ELSE {})

TotalRead == Len(Flatten(instreams))

\* the inputs a read may draw from the environment
InputOutcomes ==
    {o \in ReadOutcomes :
       /\ o.kind = "rec" => TotalRead < MaxRecs
       /\ o.kind = "err" => Recoverable
       /\ o.kind = "xerr" => /\ Recoverable
                             /\ TotalRead < MaxRecs
                             /\ key_num_fields > 0}

\* the plug-in's rec_to_bin
RecToBin(r) == r[1] + r[2]
\* the node fillRecordAndKey builds from the record it read
NodeOf(r) ==
    <<r[1], r[2], IF "plugin" \in Range(sort_fields) THEN RecToBin(r) ELSE 0>>

\* fillRecordAndKey returns 1 when a record was read and 0 when it was not;
\* -1 stands for the call that does not return (appExit on a plug-in error)
fillRecordAndKey(o) ==
    CASE o.kind = "rec" -> 1
      [] o.kind = "xerr" -> -1
      [] OTHER -> 0

\* skPluginFieldRunBinCompareFn can return an error whenever rwrecCompare
\* calls it: the results of sorting the buffer, TRUE when no call failed
QSortResults(buf) ==
    IF Recoverable /\ \E i, k \in 1 .. Len(buf) :
                         i # k /\ PluginReached(buf[i], buf[k])
    THEN BOOLEAN ELSE {TRUE}

\* the results of a heap operation that orders the entries h, whose nodes
\* are in r
HeapResults(h, r) ==
    IF Recoverable /\ \E x, y \in h : x # y /\ PluginReached(r[x], r[y])
    THEN BOOLEAN ELSE {TRUE}

\* where the process is after a comparison: rwrecCompare calls exit() when
\* the plug-in failed
AfterCompare(ok, next) == IF ok THEN next ELSE "exited"

\* appExit(EXIT_FAILURE) is called after the fault `why'
Fatal(why) ==
    /\ pc' = "failed"
    /\ events' = events \cup {why}

(***************************************************************************)
(* Temp files.                                                             *)
(***************************************************************************)
NewTmp(data) == Append(tmp, [data |-> data, exists |-> TRUE])
RemoveRange(t, a, b) ==
    [i \in 1 .. Len(t) |->
        IF a <= i - 1 /\ i - 1 <= b THEN [t[i] EXCEPT !.exists = FALSE] ELSE t[i]]
AppendTmp(t, f, n) == [t EXCEPT ![f + 1].data = Append(@, n)]
\* the cleanup of appExit: every temp file the context knows of is deleted
Teardown(t) == [i \in 1 .. Len(t) |-> [t[i] EXCEPT !.exists = FALSE]]

(***************************************************************************)
(* main                                                                    *)
(***************************************************************************)
\* main: sortPresorted or sortRandom is entered
Main ==
    /\ pc = "main"
    /\ IF presorted_input
       THEN /\ pc' = "p_begin"
            /\ UNCHANGED <<buffer_max_recs, num_chunks>>
       ELSE /\ pc' = "r_alloc"
            /\ buffer_max_recs' = sort_buffer_size \div node_size
            /\ num_chunks' = IF SORT_NUM_CHUNKS <= 0 THEN 1 ELSE SORT_NUM_CHUNKS
    /\ UNCHANGED <<cfgVars, histVars, instreams, input_rwios, record_buffer, buffer_recs,
                   buffer_chunk_recs, tmp, temp_file_idx, mergeVars, outVars,
                   events, faults, keyVars>>

\* main calls mergeFiles whatever sortRandom or sortPresorted returned
AfterSort_always(temp_idx) == "m_enter"

\* where main goes when the sort function returned temp_idx
AfterSort(temp_idx) == IF temp_idx >= 0 THEN "m_enter" ELSE "main_tail"

\* main: the header is written when no record was, the output is closed,
\* and appExit(EXIT_SUCCESS) runs its cleanup
MainTail ==
    /\ pc = "main_tail"
    /\ out_hdr' = (Len(out) = 0)
    /\ \E closed \in CallResults :
         IF closed
         THEN /\ pc' = "done"
              /\ tmp' = Teardown(tmp)
              /\ UNCHANGED events
         ELSE /\ Fatal("close_output")
              /\ UNCHANGED tmp
    /\ UNCHANGED <<cfgVars, histVars, instreams, input_rwios, bufVars, temp_file_idx,
                   mergeVars, out, nwrites, last_rv, faults, keyVars>>

\* appExit(EXIT_FAILURE): the cleanup, then the process ends
AppExit ==
    /\ pc = "failed"
    /\ tmp' = Teardown(tmp)
    /\ pc' = "exit_failure"
    /\ UNCHANGED <<cfgVars, histVars, instreams, input_rwios, bufVars, temp_file_idx,
                   mergeVars, outVars, events, faults, keyVars>>

(***************************************************************************)
(* sortRandom                                                              *)
(***************************************************************************)
\* sortRandom gives up at the first calloc that fails
GiveUp_always(chunk) == TRUE

\* sortRandom gives up when the calloc of a chunk this small has failed
GiveUp(chunk) == chunk < MIN_IN_CORE_RECORDS

\* one turn of the loop that allocates the initial chunk
RandomAlloc ==
    /\ pc = "r_alloc"
    /\ LET chunk == buffer_max_recs \div num_chunks
       IN /\ buffer_chunk_recs' = chunk
          /\ \E ok \in CallResults :
               /\ faults' = IF ok THEN faults ELSE faults + 1
               /\ IF ok
                  THEN /\ buffer_recs' = chunk
                       /\ pc' = "r_open"
                       /\ UNCHANGED <<num_chunks, events>>
                  ELSE IF GiveUp(chunk)
                  THEN /\ Fatal("calloc")
                       /\ UNCHANGED <<num_chunks, buffer_recs>>
                  ELSE /\ num_chunks' = num_chunks + 1
                       /\ UNCHANGED <<pc, buffer_recs, events>>
    /\ UNCHANGED <<cfgVars, histVars, instreams, input_rwios, record_buffer,
                   buffer_max_recs, tmp, temp_file_idx, mergeVars, outVars,
                   keyVars>>

\* appNextInput: 0 and the next input is open, 1 when there is no other
\* input, -1 on an error, -2 when out of memory or file handles
NextInputResults ==
    (IF Len(instreams) < num_inputs THEN {0} ELSE {1}) \cup
    (IF Recoverable THEN {-1} \cup (IF Len(instreams) < num_inputs THEN {-2} ELSE {})
     ELSE {})

\* sortRandom opens the first input
RandomOpenFirst ==
    /\ pc = "r_open"
    /\ \E rv \in NextInputResults :
         CASE rv = 0 ->
                /\ instreams' = Append(instreams, <<>>)
                /\ input_rwios' = Len(instreams) + 1
                /\ pc' = "r_read"
                /\ UNCHANGED events
           [] rv = 1 ->
                /\ pc' = AfterSort(temp_file_idx)
                /\ UNCHANGED <<instreams, input_rwios, events>>
           [] OTHER ->
                /\ Fatal("open_input")
                /\ UNCHANGED <<instreams, input_rwios>>
    /\ UNCHANGED <<cfgVars, histVars, bufVars, tmp, temp_file_idx, mergeVars, outVars,
                   faults, keyVars>>

\* the capacity asked of realloc when the buffer of buffer_recs nodes is full
GrowTarget(cur, chunk, max) ==
    IF (cur + chunk) + chunk > max THEN max ELSE cur + chunk

\* a failed realloc lowers the ceiling but the capacity asked for is kept
AfterGrow_keepsize(count, cur, chunk, max, grown) ==
    IF cur < max
    THEN IF grown THEN <<GrowTarget(cur, chunk, max), max>>
         ELSE <<GrowTarget(cur, chunk, max), count>>
    ELSE <<cur, max>>

\* a failed realloc pins the capacity and leaves the ceiling where it was
AfterGrow_nopin(count, cur, chunk, max, grown) ==
    IF cur < max
    THEN IF grown THEN <<GrowTarget(cur, chunk, max), max>>
         ELSE <<count, max>>
    ELSE <<cur, max>>

\* the buffer is full: the capacity and the ceiling after the attempt to grow
\* it, <<buffer_recs, buffer_max_recs>>
AfterGrow(count, cur, chunk, max, grown) ==
    IF cur < max
    THEN IF grown THEN <<GrowTarget(cur, chunk, max), max>>
         ELSE <<count, count>>
    ELSE <<cur, max>>

\* the record was read: it is stored, and the buffer grown or written out
RandomStore(o) ==
    LET buf == Append(record_buffer, NodeOf(o.rec))
        count == Len(buf)
    IN /\ instreams' = [instreams EXCEPT ![input_rwios] = Append(@, o.rec)]
       /\ rec_to_bin_calls' = rec_to_bin_calls + key_num_fields
       /\ UNCHANGED input_rwios
       /\ IF count = buffer_recs
          THEN \E grown \in (IF buffer_recs < buffer_max_recs THEN CallResults ELSE {TRUE}) :
                 LET g == AfterGrow(count, buffer_recs, buffer_chunk_recs,
                                    buffer_max_recs, grown)
                     ev == IF grown THEN {} ELSE {"realloc_fail"}
                 IN /\ buffer_recs' = g[1]
                    /\ buffer_max_recs' = g[2]
                    /\ faults' = IF grown THEN faults ELSE faults + 1
                    /\ IF count = g[2]
                       THEN \E sorted \in SortedBuffer(buf), compared \in QSortResults(buf),
                               written \in CallResults :
                              IF ~compared
                              THEN /\ pc' = AfterCompare(compared, pc)
                                   /\ record_buffer' = buf
                                   /\ events' = events \cup ev
                                   /\ UNCHANGED <<tmp, temp_file_idx>>
                              ELSE IF written
                              THEN /\ tmp' = NewTmp(sorted)
                                   /\ temp_file_idx' = Len(tmp)
                                   /\ record_buffer' = <<>>
                                   /\ events' = events \cup ev
                                   /\ UNCHANGED pc
                              ELSE /\ Fatal("write_temp")
                                   /\ record_buffer' = sorted
                                   /\ UNCHANGED <<tmp, temp_file_idx>>
                       ELSE /\ record_buffer' = buf
                            /\ events' = events \cup ev
                            /\ UNCHANGED <<pc, tmp, temp_file_idx>>
          ELSE /\ record_buffer' = buf
               /\ UNCHANGED <<pc, buffer_recs, buffer_max_recs, tmp,
                              temp_file_idx, events, faults>>

\* no record was read: the input is closed and the next one opened
RandomNextInput(o) ==
    LET ev == IF o.kind = "err" THEN {"read_err"} ELSE {}
    IN /\ faults' = IF o.kind = "err" THEN faults + 1 ELSE faults
       /\ \E rv \in NextInputResults :
            CASE rv = 0 ->
                   /\ instreams' = Append(instreams, <<>>)
                   /\ input_rwios' = Len(instreams) + 1
                   /\ events' = events \cup ev
                   /\ UNCHANGED pc
              [] rv = 1 ->
                   /\ input_rwios' = 0
                   /\ pc' = "r_last"
                   /\ events' = events \cup ev
                   /\ UNCHANGED instreams
              [] OTHER ->
                   /\ pc' = "failed"
                   /\ events' = events \cup ev \cup {"open_input"}
                   /\ UNCHANGED <<instreams, input_rwios>>
       /\ UNCHANGED <<record_buffer, buffer_recs, buffer_max_recs, tmp,
                      temp_file_idx, rec_to_bin_calls>>

\* a plug-in's rec_to_bin failed on the record read: fillRecordAndKey calls
\* appExit before it returns
\* fillRecordAndKey without the appExit of line 431
ExtractExit_noexit ==
    /\ pc' = pc
    /\ events' = events \cup {"extract"}
    /\ rec_to_bin_calls' = rec_to_bin_calls + 1

ExtractExit ==
    /\ Fatal("extract")
    /\ rec_to_bin_calls' = rec_to_bin_calls + 1

\* one turn of the loop that reads the inputs
RandomRead ==
    /\ pc = "r_read"
    /\ input_rwios # 0
    /\ \E o \in InputOutcomes :
         CASE fillRecordAndKey(o) = 1 -> RandomStore(o)
           [] fillRecordAndKey(o) = 0 -> RandomNextInput(o)
           [] OTHER ->
                /\ ExtractExit
                /\ UNCHANGED <<instreams, input_rwios, record_buffer,
                               buffer_recs, buffer_max_recs, tmp, temp_file_idx,
                               faults>>
    /\ UNCHANGED <<cfgVars, histVars, buffer_chunk_recs, num_chunks, mergeVars, outVars,
                   cmp_fwd, cmp_rev>>

\* the last batch is never written to a temp file
StoreLast_never(idx) == FALSE

\* the last batch goes to a temp file when temp files were written before
StoreLast(idx) == idx >= 0

\* the last batch is written to the final output whenever it is not empty
OutputBatch_any(count, idx) == count > 0

\* the last batch is written to the final output when no temp file exists
OutputBatch(count, idx) == count > 0 /\ idx = -1

\* the last batch is sorted, and stored when temp files exist
RandomLast ==
    /\ pc = "r_last"
    /\ IF Len(record_buffer) > 0
       THEN \E sorted \in SortedBuffer(record_buffer),
               compared \in QSortResults(record_buffer) :
              /\ record_buffer' = IF compared THEN sorted ELSE record_buffer
              /\ IF ~compared
                 THEN /\ pc' = AfterCompare(compared, pc)
                      /\ UNCHANGED <<tmp, temp_file_idx, events>>
                 ELSE IF StoreLast(temp_file_idx)
                 THEN \E written \in CallResults :
                        IF written
                        THEN /\ tmp' = NewTmp(sorted)
                             /\ temp_file_idx' = Len(tmp)
                             /\ pc' = IF OutputBatch(Len(sorted), Len(tmp))
                                      THEN "r_out" ELSE AfterSort(Len(tmp))
                             /\ UNCHANGED events
                        ELSE /\ Fatal("write_temp")
                             /\ UNCHANGED <<tmp, temp_file_idx>>
                 ELSE /\ pc' = IF OutputBatch(Len(sorted), temp_file_idx)
                               THEN "r_out" ELSE AfterSort(temp_file_idx)
                      /\ UNCHANGED <<tmp, temp_file_idx, events>>
       ELSE /\ pc' = AfterSort(temp_file_idx)
            /\ UNCHANGED <<record_buffer, tmp, temp_file_idx, events>>
    /\ j' = 0
    /\ UNCHANGED <<cfgVars, histVars, instreams, input_rwios, buffer_recs,
                   buffer_max_recs, buffer_chunk_recs, num_chunks, tmp_idx_a,
                   tmp_idx_b, tmp_idx_intermediate, open_count, fps, rwios,
                   recs, heap, lowest, fp_intermediate, no_more, opened,
                   outVars, faults, keyVars>>

\* skStreamWriteRecord(out_rwios, node) returned rv
WriteRecord(node, rv) ==
    /\ out' = IF rv = "OK" THEN Append(out, RecOf(node)) ELSE out
    /\ nwrites' = nwrites + 1
    /\ last_rv' = rv
    /\ UNCHANGED out_hdr

\* the test on the status of a write without SKSTREAM_ERROR_IS_FATAL
WriteFails_anyerror(rv) == rv # "OK"

\* the test on the status of a write to the final output
WriteFails(rv) == rv # "OK" /\ SKSTREAM_ERROR_IS_FATAL(rv)

\* no temp file was written: the buffer goes to the final output
RandomOutput ==
    /\ pc = "r_out"
    /\ IF j < Len(record_buffer)
       THEN \E rv \in WriteStatuses :
              /\ rv # "OK" => Recoverable
              /\ WriteRecord(record_buffer[j + 1], rv)
              /\ faults' = IF rv = "NONFATAL" THEN faults + 1 ELSE faults
              /\ IF WriteFails(rv)
                 THEN Fatal("write_fatal") /\ UNCHANGED j
                 ELSE /\ j' = j + 1
                      /\ events' = events \cup
                            (IF rv = "OK" THEN {} ELSE {"write_nonfatal"})
                      /\ UNCHANGED pc
       ELSE /\ pc' = AfterSort(temp_file_idx)
            /\ UNCHANGED <<j, outVars, events, faults>>
    /\ UNCHANGED <<cfgVars, histVars, instreams, input_rwios, bufVars, tmp, temp_file_idx,
                   tmp_idx_a, tmp_idx_b, tmp_idx_intermediate, open_count, fps,
                   rwios, recs, heap, lowest, fp_intermediate, no_more, opened,
                   keyVars>>


(***************************************************************************)
(* mergeFiles                                                              *)
(***************************************************************************)
\* every pass takes one temp file
MergeUpperBound_single(idx, a) == a

\* the index of the last temp file of the pass that starts at file a
MergeUpperBound(idx, a) ==
    IF idx - a < MAX_MERGE_FILES - 1 THEN idx ELSE a + MAX_MERGE_FILES - 1

\* mergeFiles is entered
MergeEnter ==
    /\ pc = "m_enter"
    /\ tmp_idx_a' = 0
    /\ no_more' = FALSE
    /\ heap' = {}
    /\ merge_entry' = temp_file_idx
    /\ pass_log' = <<>>
    /\ pc' = "m_begin"
    /\ UNCHANGED <<cfgVars, alloc_bytes, instreams, input_rwios, bufVars, tmp, temp_file_idx,
                   tmp_idx_b, tmp_idx_intermediate, j, open_count, fps, rwios,
                   recs, lowest, fp_intermediate, opened, outVars, events,
                   faults, keyVars>>

\* a pass begins: its range is set and the intermediate temp file created
MergeBegin ==
    /\ pc = "m_begin"
    /\ tmp_idx_b' = MergeUpperBound(temp_file_idx, tmp_idx_a)
    /\ \E created \in CallResults :
         IF created
         THEN /\ tmp' = NewTmp(<<>>)
              /\ tmp_idx_intermediate' = Len(tmp)
              /\ fp_intermediate' = TRUE
              /\ open_count' = 0
              /\ j' = tmp_idx_a
              /\ pc' = "m_open"
              /\ UNCHANGED events
         ELSE /\ Fatal("create_temp")
              /\ UNCHANGED <<tmp, tmp_idx_intermediate, fp_intermediate,
                             open_count, j>>
    /\ UNCHANGED <<cfgVars, histVars, instreams, input_rwios, bufVars, temp_file_idx,
                   tmp_idx_a, fps, rwios, recs, heap, lowest, no_more, opened,
                   outVars, faults, keyVars>>

\* what the pass does when skTempFileOpen returned NULL: "truncate" the pass
\* or "exit"
OpenFailure(count, errno) ==
    IF count > 0 /\ errno = "EMFILE" THEN "truncate" ELSE "exit"

\* the last file of a pass that could not open file k
TruncatedBound(k) == k - 1

\* one turn of the loop that opens the temp files of the pass
MergeOpen ==
    /\ pc = "m_open"
    /\ \E o \in OpenOutcomes(j) :
         /\ IF o # "ok"
            THEN /\ IF OpenFailure(open_count, o) = "truncate"
                    THEN /\ tmp_idx_b' = TruncatedBound(j)
                         /\ events' = events \cup {"emfile"}
                         /\ faults' = faults + 1
                         /\ pc' = "m_dest"
                    ELSE /\ Fatal(IF o = "EMFILE" THEN "emfile_fatal" ELSE "open_temp")
                         /\ UNCHANGED <<tmp_idx_b, faults>>
                 /\ UNCHANGED <<j, open_count, fps, recs, heap, opened>>
            ELSE /\ opened' = opened \cup {j}
                 /\ UNCHANGED <<tmp_idx_b, faults>>
                 /\ \E r \in FreadOutcomes(j, 0) :
                      CASE r = "rec" ->
                             /\ fps' = [fps EXCEPT ![open_count] =
                                            [file |-> j, pos |-> 1]]
                             /\ recs' = [recs EXCEPT ![open_count] =
                                            tmp[j + 1].data[1]]
                             /\ heap' = heap \cup {open_count}
                             /\ open_count' = open_count + 1
                             /\ j' = j + 1
                             /\ \E inserted \in HeapResults(heap', recs') :
                                  pc' = AfterCompare(inserted,
                                           IF j + 1 <= tmp_idx_b THEN "m_open"
                                           ELSE "m_dest")
                             /\ UNCHANGED events
                        [] r = "eof" ->
                             /\ fps' = [fps EXCEPT ![open_count] =
                                            [file |-> j, pos |-> 0]]
                             /\ j' = j + 1
                             /\ pc' = IF j + 1 <= tmp_idx_b THEN "m_open" ELSE "m_dest"
                             /\ UNCHANGED <<events, recs, heap, open_count>>
                        [] OTHER ->
                             /\ Fatal("read_temp_first")
                             /\ fps' = [fps EXCEPT ![open_count] =
                                            [file |-> j, pos |-> 0]]
                             /\ UNCHANGED <<j, recs, heap, open_count>>
    /\ UNCHANGED <<cfgVars, histVars, instreams, input_rwios, bufVars, tmp, temp_file_idx,
                   tmp_idx_a, tmp_idx_intermediate, rwios, lowest,
                   fp_intermediate, no_more, outVars, keyVars>>

\* the files are open: the pass writes to the final output when it reaches
\* the last temp file, and to the intermediate file otherwise
MergeDest ==
    /\ pc = "m_dest"
    /\ IF tmp_idx_b = temp_file_idx
       THEN /\ no_more' = TRUE
            /\ fp_intermediate' = FALSE
            /\ UNCHANGED temp_file_idx
       ELSE /\ temp_file_idx' = tmp_idx_intermediate
            /\ UNCHANGED <<no_more, fp_intermediate>>
    /\ pass_log' = Append(pass_log, [a |-> tmp_idx_a, b |-> tmp_idx_b,
                                     final |-> tmp_idx_b = temp_file_idx])
    /\ pc' = "m_heap"
    /\ UNCHANGED <<cfgVars, merge_entry, alloc_bytes, instreams, input_rwios, bufVars, tmp, tmp_idx_a,
                   tmp_idx_b, tmp_idx_intermediate, j, open_count, fps, rwios,
                   recs, heap, lowest, opened, outVars, events, faults,
                   keyVars>>

\* every pass writes to the final output
Emit_final(node, f, rv) ==
    /\ WriteRecord(node, rv)
    /\ UNCHANGED tmp

\* the node goes to the intermediate file (fwrite) or to the final output
\* (skStreamWriteRecord); rv is the status of either
Emit(node, f, rv) ==
    IF fp_intermediate
    THEN /\ tmp' = IF rv = "OK" THEN AppendTmp(tmp, f, node) ELSE tmp
         /\ UNCHANGED outVars
    ELSE /\ WriteRecord(node, rv)
         /\ UNCHANGED tmp

\* the statuses the destination of the pass can return
EmitStatuses ==
    IF fp_intermediate THEN {rv \in {"OK", "FATAL"} : rv # "OK" => Recoverable}
    ELSE {rv \in WriteStatuses : rv # "OK" => Recoverable}

EmitFails(rv) == IF fp_intermediate THEN rv # "OK" ELSE WriteFails(rv)

EmitEvents(rv) ==
    IF rv = "OK" THEN {}
    ELSE IF fp_intermediate THEN {"write_temp"}
    ELSE IF rv = "NONFATAL" THEN {"write_nonfatal"} ELSE {"write_fatal"}

EmitFaults(rv) == IF ~fp_intermediate /\ rv = "NONFATAL" THEN 1 ELSE 0

\* the scratch node of slot s is replaced: TRUE when fread read a node
FreadOk(r) == r = "rec"

\* one turn of the loop that runs while the heap holds two entries or more
MergeHeap ==
    /\ pc = "m_heap"
    /\ Cardinality(heap) > 1
    /\ \E top \in HeapTop(heap), rv \in EmitStatuses :
         /\ lowest' = top
         /\ Emit(recs[top], tmp_idx_intermediate, rv)
         /\ IF EmitFails(rv)
            THEN /\ Fatal(CHOOSE e \in EmitEvents(rv) : TRUE)
                 /\ UNCHANGED <<fps, recs, heap, faults>>
            ELSE \E r \in FreadOutcomes(fps[top].file, fps[top].pos) :
                   /\ r = "err" => faults + EmitFaults(rv) < MaxFaults
                   /\ faults' = faults + EmitFaults(rv) +
                                    (IF r = "err" THEN 1 ELSE 0)
                   /\ events' = events \cup EmitEvents(rv) \cup
                                    (IF r = "err" THEN {"read_temp"} ELSE {})
                   /\ IF FreadOk(r)
                      THEN /\ recs' = [recs EXCEPT ![top] =
                                  tmp[fps[top].file + 1].data[fps[top].pos + 1]]
                           /\ fps' = [fps EXCEPT ![top].pos = @ + 1]
                           /\ UNCHANGED heap
                      ELSE /\ heap' = heap \ {top}
                           /\ UNCHANGED <<fps, recs>>
                   /\ \E ordered \in HeapResults(heap', recs') :
                        pc' = AfterCompare(ordered, pc)
    /\ UNCHANGED <<cfgVars, histVars, instreams, input_rwios, bufVars, temp_file_idx,
                   tmp_idx_a, tmp_idx_b, tmp_idx_intermediate, j, open_count,
                   rwios, fp_intermediate, no_more, opened, keyVars>>

\* skHeapExtractTop(heap, &lowest) after the loop.  mergeFiles does not test
\* its result: on an empty heap lowest is not set, and the loop that follows
\* writes recs[lowest] and reads fps[lowest], an undefined node and handle.
\* The build then stops on a fault, or writes one undefined node and finds
\* the handle at its end.
MergeExtract ==
    /\ pc = "m_heap"
    /\ Cardinality(heap) <= 1
    /\ IF heap # {}
       THEN /\ lowest' = CHOOSE s \in heap : TRUE
            /\ heap' = {}
            /\ pc' = "m_drain"
            /\ UNCHANGED <<tmp, outVars, events>>
       ELSE /\ UNCHANGED <<lowest, heap>>
            /\ \/ /\ pc' = "crashed"
                  /\ events' = events \cup {"undefined"}
                  /\ UNCHANGED <<tmp, outVars>>
               \/ \E garbage \in {NodeOf(r) : r \in Recs} :
                    /\ Emit(garbage, tmp_idx_intermediate, "OK")
                    /\ pc' = "m_end"
                    /\ events' = events \cup {"undefined"}
    /\ UNCHANGED <<cfgVars, histVars, instreams, input_rwios, bufVars, temp_file_idx,
                   tmp_idx_a, tmp_idx_b, tmp_idx_intermediate, j, open_count,
                   fps, rwios, recs, fp_intermediate, no_more, opened, faults,
                   keyVars>>

\* one turn of the loop that copies the remaining file
MergeDrain ==
    /\ pc = "m_drain"
    /\ \E rv \in EmitStatuses :
         /\ Emit(recs[lowest], tmp_idx_intermediate, rv)
         /\ IF EmitFails(rv)
            THEN /\ Fatal(CHOOSE e \in EmitEvents(rv) : TRUE)
                 /\ UNCHANGED <<fps, recs, faults>>
            ELSE \E r \in FreadOutcomes(fps[lowest].file, fps[lowest].pos) :
                   /\ r = "err" => faults + EmitFaults(rv) < MaxFaults
                   /\ faults' = faults + EmitFaults(rv) +
                                    (IF r = "err" THEN 1 ELSE 0)
                   /\ events' = events \cup EmitEvents(rv) \cup
                                    (IF r = "err" THEN {"read_temp"} ELSE {})
                   /\ IF FreadOk(r)
                      THEN /\ recs' = [recs EXCEPT ![lowest] =
                                  tmp[fps[lowest].file + 1].data[fps[lowest].pos + 1]]
                           /\ fps' = [fps EXCEPT ![lowest].pos = @ + 1]
                           /\ UNCHANGED pc
                      ELSE /\ pc' = "m_end"
                           /\ UNCHANGED <<fps, recs>>
    /\ UNCHANGED <<cfgVars, histVars, instreams, input_rwios, bufVars, temp_file_idx,
                   tmp_idx_a, tmp_idx_b, tmp_idx_intermediate, j, open_count,
                   rwios, heap, lowest, fp_intermediate, no_more, opened,
                   keyVars>>

\* the temp files whose handles the pass closes: fps[0 .. open_count-1]
ClosedByPass == {fps[i].file : i \in {s \in Slots : s < open_count}}

\* the pass removes no temp file
RemovedByPass_none == tmp

\* the pass removes as many temp files as it has readers
RemovedByPass_opened == RemoveRange(tmp, tmp_idx_a, tmp_idx_a + open_count - 1)

\* the temp files after the pass has removed those it opened or tried to open
RemovedByPass == RemoveRange(tmp, tmp_idx_a, tmp_idx_b)

\* the next pass starts where this one started
NextPassStart_same == tmp_idx_a

\* the first temp file of the next pass
NextPassStart == tmp_idx_b + 1

\* the pass ends: its handles are closed and its temp files removed
MergeEnd ==
    /\ pc = "m_end"
    /\ opened' = opened \ ClosedByPass
    /\ tmp' = RemovedByPass
    /\ tmp_idx_a' = NextPassStart
    /\ \E closed \in (IF fp_intermediate THEN CallResults ELSE {TRUE}) :
         IF closed
         THEN /\ fp_intermediate' = FALSE
              /\ pc' = IF no_more THEN "main_tail" ELSE "m_begin"
              /\ UNCHANGED events
         ELSE /\ Fatal("close_temp")
              /\ UNCHANGED fp_intermediate
    /\ UNCHANGED <<cfgVars, histVars, instreams, input_rwios, bufVars, temp_file_idx,
                   tmp_idx_b, tmp_idx_intermediate, j, open_count, fps, rwios,
                   recs, heap, lowest, no_more, outVars, faults, keyVars>>

(***************************************************************************)
(* sortPresorted                                                           *)
(***************************************************************************)
\* a pass begins: the intermediate temp file is created
PreBegin ==
    /\ pc = "p_begin"
    /\ \E created \in CallResults :
         IF created
         THEN /\ tmp' = NewTmp(<<>>)
              /\ temp_file_idx' = Len(tmp)
              /\ fp_intermediate' = TRUE
              /\ open_count' = 0
              /\ pc' = "p_open"
              /\ UNCHANGED events
         ELSE /\ Fatal("create_temp")
              /\ UNCHANGED <<tmp, temp_file_idx, fp_intermediate, open_count>>
    /\ UNCHANGED <<cfgVars, histVars, instreams, input_rwios, bufVars, tmp_idx_a,
                   tmp_idx_b, tmp_idx_intermediate, j, fps, rwios, recs, heap,
                   lowest, no_more, opened, outVars, faults, keyVars>>

\* the switch on the result of the loop that opens the inputs of the pass:
\* "all" inputs are open, "exit", or "merge" those that are
PresortedSwitch(rv, count) ==
    CASE rv = 1 -> "all"
      [] rv = -1 -> "exit"
      [] rv = -2 -> "merge"
      [] rv = 0 /\ count = MAX_MERGE_FILES -> "merge"
      [] OTHER -> "abort"

\* one turn of the loop that opens the inputs of the pass, and the switch
\* that follows the loop
PreOpen ==
    /\ pc = "p_open"
    /\ \E rv \in (IF open_count < MAX_MERGE_FILES THEN NextInputResults ELSE {0}) :
         IF rv = 0 /\ open_count < MAX_MERGE_FILES
         THEN /\ instreams' = Append(instreams, <<>>)
              /\ rwios' = [rwios EXCEPT ![open_count] = Len(instreams) + 1]
              /\ open_count' = open_count + 1
              /\ UNCHANGED <<pc, events, faults, no_more, fp_intermediate,
                             temp_file_idx, j>>
         ELSE LET what == PresortedSwitch(rv, open_count)
              IN /\ UNCHANGED <<instreams, rwios, open_count>>
                 /\ j' = 0
                 /\ faults' = IF rv < 0 THEN faults + 1 ELSE faults
                 /\ CASE what = "all" ->
                           /\ no_more' = TRUE
                           /\ IF temp_file_idx = 0
                              THEN fp_intermediate' = FALSE /\ temp_file_idx' = -1
                              ELSE UNCHANGED <<fp_intermediate, temp_file_idx>>
                           /\ pc' = "p_seed"
                           /\ UNCHANGED events
                      [] what = "merge" ->
                           /\ pc' = "p_seed"
                           /\ events' = events \cup
                                 (IF rv = -2 THEN {"emfile_input"} ELSE {})
                           /\ UNCHANGED <<no_more, fp_intermediate, temp_file_idx>>
                      [] OTHER ->
                           /\ Fatal("open_input")
                           /\ UNCHANGED <<no_more, fp_intermediate, temp_file_idx>>
    /\ UNCHANGED <<cfgVars, histVars, input_rwios, bufVars, tmp, tmp_idx_a, tmp_idx_b,
                   tmp_idx_intermediate, fps, recs, heap, lowest, opened,
                   outVars, keyVars>>


\* one turn of the loop that reads the first record of each input
PreSeed ==
    /\ pc = "p_seed"
    /\ IF j < open_count
       THEN \E o \in InputOutcomes :
              /\ j' = j + 1
              /\ CASE fillRecordAndKey(o) = 1 ->
                        /\ instreams' = [instreams EXCEPT ![rwios[j]] = Append(@, o.rec)]
                        /\ rec_to_bin_calls' = rec_to_bin_calls + key_num_fields
                        /\ recs' = [recs EXCEPT ![j] = NodeOf(o.rec)]
                        /\ heap' = heap \cup {j}
                        /\ \E inserted \in HeapResults(heap', recs') :
                             pc' = AfterCompare(inserted, pc)
                        /\ UNCHANGED <<events, faults>>
                   [] fillRecordAndKey(o) = 0 ->
                        /\ events' = events \cup
                              (IF o.kind = "err" THEN {"read_err"} ELSE {})
                        /\ faults' = IF o.kind = "err" THEN faults + 1 ELSE faults
                        /\ UNCHANGED <<pc, instreams, recs, heap, rec_to_bin_calls>>
                   [] OTHER ->
                        /\ ExtractExit
                        /\ UNCHANGED <<instreams, recs, heap, faults>>
       ELSE /\ pc' = "p_heap"
            /\ UNCHANGED <<j, instreams, recs, heap, events, faults,
                           rec_to_bin_calls>>
    /\ UNCHANGED <<cfgVars, histVars, input_rwios, bufVars, tmp, temp_file_idx, tmp_idx_a,
                   tmp_idx_b, tmp_idx_intermediate, open_count, fps, rwios,
                   lowest, fp_intermediate, no_more, opened, outVars, cmp_fwd,
                   cmp_rev>>

\* PreRefill reading the next record without storing it in the scratch node
PreRefill_stale(s, rv, stay, leave, exits) ==
    \E o \in InputOutcomes :
      /\ o.kind = "err" => faults + EmitFaults(rv) < MaxFaults
      /\ faults' = faults + EmitFaults(rv) + (IF o.kind = "err" THEN 1 ELSE 0)
      /\ CASE fillRecordAndKey(o) = 1 ->
                /\ instreams' = [instreams EXCEPT ![rwios[s]] = Append(@, o.rec)]
                /\ rec_to_bin_calls' = rec_to_bin_calls + key_num_fields
                /\ UNCHANGED recs
                /\ events' = events \cup EmitEvents(rv)
                /\ stay
           [] fillRecordAndKey(o) = 0 ->
                /\ events' = events \cup EmitEvents(rv) \cup
                                 (IF o.kind = "err" THEN {"read_err"} ELSE {})
                /\ UNCHANGED <<instreams, recs, rec_to_bin_calls>>
                /\ leave
           [] OTHER ->
                /\ pc' = "failed"
                /\ events' = events \cup EmitEvents(rv) \cup {"extract"}
                /\ rec_to_bin_calls' = rec_to_bin_calls + 1
                /\ UNCHANGED <<instreams, recs>>
                /\ exits

\* the scratch node of slot s is replaced from its input after the write
\* that returned rv; stay, leave and exits are what the caller does when a
\* record was read, when none was, and when fillRecordAndKey did not return
PreRefill(s, rv, stay, leave, exits) ==
    \E o \in InputOutcomes :
      /\ o.kind = "err" => faults + EmitFaults(rv) < MaxFaults
      /\ faults' = faults + EmitFaults(rv) + (IF o.kind = "err" THEN 1 ELSE 0)
      /\ CASE fillRecordAndKey(o) = 1 ->
                /\ instreams' = [instreams EXCEPT ![rwios[s]] = Append(@, o.rec)]
                /\ rec_to_bin_calls' = rec_to_bin_calls + key_num_fields
                /\ recs' = [recs EXCEPT ![s] = NodeOf(o.rec)]
                /\ events' = events \cup EmitEvents(rv)
                /\ stay
           [] fillRecordAndKey(o) = 0 ->
                /\ events' = events \cup EmitEvents(rv) \cup
                                 (IF o.kind = "err" THEN {"read_err"} ELSE {})
                /\ UNCHANGED <<instreams, recs, rec_to_bin_calls>>
                /\ leave
           [] OTHER ->
                /\ pc' = "failed"
                /\ events' = events \cup EmitEvents(rv) \cup {"extract"}
                /\ rec_to_bin_calls' = rec_to_bin_calls + 1
                /\ UNCHANGED <<instreams, recs>>
                /\ exits

\* one turn of the loop that runs while the heap holds two entries or more
PreHeap ==
    /\ pc = "p_heap"
    /\ Cardinality(heap) > 1
    /\ \E top \in HeapTop(heap), rv \in EmitStatuses :
         /\ lowest' = top
         /\ Emit(recs[top], temp_file_idx, rv)
         /\ IF EmitFails(rv)
            THEN /\ Fatal(CHOOSE e \in EmitEvents(rv) : TRUE)
                 /\ UNCHANGED <<instreams, recs, heap, faults, rec_to_bin_calls>>
            ELSE PreRefill(top, rv,
                           /\ UNCHANGED heap
                           /\ \E ordered \in HeapResults(heap, recs') :
                                pc' = AfterCompare(ordered, pc),
                           /\ heap' = heap \ {top}
                           /\ \E ordered \in HeapResults(heap \ {top}, recs) :
                                pc' = AfterCompare(ordered, pc),
                           UNCHANGED heap)
    /\ UNCHANGED <<cfgVars, histVars, input_rwios, bufVars, temp_file_idx, tmp_idx_a,
                   tmp_idx_b, tmp_idx_intermediate, j, open_count, fps, rwios,
                   fp_intermediate, no_more, opened, cmp_fwd, cmp_rev>>

\* skHeapExtractTop after the loop: the remaining input, if there is one
PreExtract ==
    /\ pc = "p_heap"
    /\ Cardinality(heap) <= 1
    /\ IF heap # {}
       THEN /\ lowest' = CHOOSE s \in heap : TRUE
            /\ heap' = {}
            /\ pc' = "p_drain"
       ELSE /\ pc' = "p_end"
            /\ UNCHANGED <<lowest, heap>>
    /\ UNCHANGED <<cfgVars, histVars, instreams, input_rwios, bufVars, tmp, temp_file_idx,
                   tmp_idx_a, tmp_idx_b, tmp_idx_intermediate, j, open_count,
                   fps, rwios, recs, fp_intermediate, no_more, opened, outVars,
                   events, faults, keyVars>>

\* one turn of the loop that copies the remaining input
PreDrain ==
    /\ pc = "p_drain"
    /\ \E rv \in EmitStatuses :
         /\ Emit(recs[lowest], temp_file_idx, rv)
         /\ IF EmitFails(rv)
            THEN /\ Fatal(CHOOSE e \in EmitEvents(rv) : TRUE)
                 /\ UNCHANGED <<instreams, recs, faults, rec_to_bin_calls>>
            ELSE PreRefill(lowest, rv, UNCHANGED pc, pc' = "p_end", TRUE)
    /\ UNCHANGED <<cfgVars, histVars, input_rwios, bufVars, temp_file_idx, tmp_idx_a,
                   tmp_idx_b, tmp_idx_intermediate, j, open_count, fps, rwios,
                   heap, lowest, fp_intermediate, no_more, opened, cmp_fwd,
                   cmp_rev>>

\* the pass ends: its inputs and the intermediate file are closed
PreEnd ==
    /\ pc = "p_end"
    /\ rwios' = [s \in Slots |-> IF s < open_count THEN 0 ELSE rwios[s]]
    /\ \E closed \in (IF fp_intermediate THEN CallResults ELSE {TRUE}) :
         IF closed
         THEN /\ fp_intermediate' = FALSE
              /\ pc' = IF no_more THEN AfterSort(temp_file_idx) ELSE "p_begin"
              /\ UNCHANGED events
         ELSE /\ Fatal("close_temp")
              /\ UNCHANGED fp_intermediate
    /\ UNCHANGED <<cfgVars, histVars, instreams, input_rwios, bufVars, tmp, temp_file_idx,
                   tmp_idx_a, tmp_idx_b, tmp_idx_intermediate, j, open_count,
                   fps, recs, heap, lowest, no_more, opened, outVars, faults,
                   keyVars>>

(***************************************************************************)
(* Specifications.                                                         *)
(***************************************************************************)
\* the locals and the files when main is entered
InitLocals ==
    /\ instreams = <<>>
    /\ input_rwios = 0
    /\ buffer_recs = 0
    /\ buffer_max_recs = 0
    /\ buffer_chunk_recs = 0
    /\ num_chunks = 0
    /\ tmp = <<>>
    /\ temp_file_idx = -1
    /\ tmp_idx_a = 0
    /\ tmp_idx_b = 0
    /\ tmp_idx_intermediate = 0
    /\ j = 0
    /\ open_count = 0
    /\ fps = [s \in Slots |-> [file |-> -1, pos |-> 0]]
    /\ rwios = [s \in Slots |-> 0]
    /\ recs = [s \in Slots |-> ZeroNode]
    /\ heap = {}
    /\ lowest = 0
    /\ fp_intermediate = FALSE
    /\ no_more = FALSE
    /\ opened = {}
    /\ out = <<>>
    /\ out_hdr = FALSE
    /\ nwrites = 0
    /\ last_rv = "OK"
    /\ events = {}
    /\ faults = 0
    /\ cmp_fwd = [val |-> 0, sorted |-> {}]
    /\ cmp_rev = [val |-> 0, sorted |-> {}]
    /\ rec_to_bin_calls = 0
    /\ merge_entry = -1
    /\ pass_log = <<>>
    /\ alloc_bytes = -1

\* a run of rwsort after appSetup
InitRun ==
    /\ pc = "main"
    /\ presorted_input \in BOOLEAN
    /\ reverse \in BOOLEAN
    /\ sort_fields \in SortFieldLists
    /\ sort_buffer_size \in
          (IF presorted_input THEN {DEFAULT_SORT_BUFFER_SIZE} ELSE SortBufferSizes)
    /\ num_inputs \in 0 .. (IF presorted_input THEN MaxInputs ELSE MaxInputs - 1)
    /\ record_buffer = <<>>
    /\ InitLocals

InitRandom == InitRun /\ presorted_input = FALSE

NextRandom ==
    \/ Main
    \/ RandomAlloc
    \/ RandomOpenFirst
    \/ RandomRead
    \/ RandomLast
    \/ RandomOutput
    \/ MergeEnter
    \/ MergeBegin
    \/ MergeOpen
    \/ MergeDest
    \/ MergeHeap
    \/ MergeExtract
    \/ MergeDrain
    \/ MergeEnd
    \/ MainTail
    \/ AppExit

SpecRandom == InitRandom /\ [][NextRandom]_vars

InitPresorted == InitRun /\ presorted_input = TRUE

NextPresorted ==
    \/ Main
    \/ PreBegin
    \/ PreOpen
    \/ PreSeed
    \/ PreHeap
    \/ PreExtract
    \/ PreDrain
    \/ PreEnd
    \/ MergeEnter
    \/ MergeBegin
    \/ MergeOpen
    \/ MergeDest
    \/ MergeHeap
    \/ MergeExtract
    \/ MergeDrain
    \/ MergeEnd
    \/ MainTail
    \/ AppExit

SpecPresorted == InitPresorted /\ [][NextPresorted]_vars

Init == InitRun

Next ==
    \/ Main
    \/ RandomAlloc
    \/ RandomOpenFirst
    \/ RandomRead
    \/ RandomLast
    \/ RandomOutput
    \/ PreBegin
    \/ PreOpen
    \/ PreSeed
    \/ PreHeap
    \/ PreExtract
    \/ PreDrain
    \/ PreEnd
    \/ MergeEnter
    \/ MergeBegin
    \/ MergeOpen
    \/ MergeDest
    \/ MergeHeap
    \/ MergeExtract
    \/ MergeDrain
    \/ MergeEnd
    \/ MainTail
    \/ AppExit

Spec == Init /\ [][Next]_vars


(***************************************************************************)
(* The comparator and skQSort applied to a buffer of nodes, with the sort  *)
(* order forward and then reversed.                                        *)
(***************************************************************************)
\* longest buffer the comparator specification sorts
MaxCmpLen == 3

CmpBuffers ==
    UNION {[1 .. n -> Nodes] : n \in 2 .. MaxCmpLen}

InitCmp ==
    /\ pc = "cmp"
    /\ presorted_input = FALSE
    /\ reverse = FALSE
    /\ sort_fields \in CompareFieldLists
    /\ sort_buffer_size = DEFAULT_SORT_BUFFER_SIZE
    /\ num_inputs = 0
    /\ record_buffer \in CmpBuffers
    /\ InitLocals

\* rwrecCompare on the first two nodes, and the arrangements skQSort may
\* leave the buffer in
CompareAndSort(res) ==
    res = [val |-> rwrecCompare(record_buffer[1], record_buffer[2]),
           sorted |-> skQSort(record_buffer)]

CompareForward ==
    /\ pc = "cmp"
    /\ CompareAndSort(cmp_fwd')
    /\ reverse' = TRUE
    /\ pc' = "cmp_rev"
    /\ UNCHANGED <<presorted_input, sort_fields, sort_buffer_size, num_inputs,
                   histVars, instreams, input_rwios, bufVars, tmp, temp_file_idx,
                   mergeVars, outVars, events, faults, cmp_rev,
                   rec_to_bin_calls>>

CompareReverse ==
    /\ pc = "cmp_rev"
    /\ CompareAndSort(cmp_rev')
    /\ pc' = "cmp_done"
    /\ UNCHANGED <<cfgVars, histVars, instreams, input_rwios, bufVars, tmp, temp_file_idx,
                   mergeVars, outVars, events, faults, cmp_fwd,
                   rec_to_bin_calls>>

NextCmp ==
    \/ CompareForward
    \/ CompareReverse

SpecCmp == InitCmp /\ [][NextCmp]_vars

(***************************************************************************)
(* The sizes of the buffer of sortRandom in the widths of their types.     *)
(***************************************************************************)
\* a value stored in a uint32_t
ToUint32(v) == v % (2 ^ Uint32Bits)

\* the --sort-buffer-size values a uint64_t holds, from one initial chunk of
\* one node upwards
SizeValues == (node_size * SORT_NUM_CHUNKS) .. (2 ^ Uint64Bits - 1)

InitSize ==
    /\ pc = "sz"
    /\ presorted_input = FALSE
    /\ reverse = FALSE
    /\ sort_fields = <<"sport">>
    /\ sort_buffer_size \in SizeValues
    /\ num_inputs = 1
    /\ record_buffer = <<>>
    /\ InitLocals

\* buffer_max_recs, and the initial chunk, which calloc grants
SizeSetup ==
    /\ pc = "sz"
    /\ buffer_max_recs' = ToUint32(sort_buffer_size \div node_size)
    /\ num_chunks' = SORT_NUM_CHUNKS
    /\ buffer_chunk_recs' = buffer_max_recs' \div num_chunks'
    /\ buffer_recs' = buffer_chunk_recs'
    /\ pc' = "sz_fill"
    /\ UNCHANGED <<cfgVars, histVars, instreams, input_rwios, record_buffer,
                   tmp, temp_file_idx, mergeVars, outVars, events, faults,
                   keyVars>>

\* the buffer is full below its ceiling: the capacity is raised and realloc
\* is asked for node_size * buffer_recs bytes, which it grants
SizeGrow ==
    /\ pc = "sz_fill"
    /\ buffer_recs < buffer_max_recs
    /\ LET grown == ToUint32(buffer_recs + buffer_chunk_recs)
       IN buffer_recs' = IF ToUint32(grown + buffer_chunk_recs) > buffer_max_recs
                         THEN buffer_max_recs ELSE grown
    /\ alloc_bytes' = ToUint32(node_size * buffer_recs')
    /\ UNCHANGED <<pc, cfgVars, merge_entry, pass_log, instreams, input_rwios,
                   record_buffer, buffer_max_recs, buffer_chunk_recs,
                   num_chunks, tmp, temp_file_idx, mergeVars, outVars, events,
                   faults, keyVars>>

NextSize ==
    \/ SizeSetup
    \/ SizeGrow

SpecSize == InitSize /\ [][NextSize]_vars


(***************************************************************************)
(* Properties.                                                             *)
(***************************************************************************)
\* the final output as nodes, for the comparator
OutNodes == [i \in 1 .. Len(out) |-> NodeOf(out[i])]

\* every input stream, as read, is ordered under sort_fields and reverse
InputsSorted ==
    \A s \in 1 .. Len(instreams) :
      IsSorted([i \in 1 .. Len(instreams[s]) |-> NodeOf(instreams[s][i])])

\* the run ended with main returning 0
Completed == pc = "done"

\* C1: in the random path, whenever the program completes successfully and
\* every write to the final output was accepted, the records of the final
\* output are, as a multiset, the records read from the inputs.
C1_RandomTotality ==
    (Completed /\ ~presorted_input /\ "write_nonfatal" \notin events)
        => SameBag(out, Flatten(instreams))

\* C2: on successful completion every adjacent pair of the final output
\* satisfies rwrecCompare(x_i, x_{i+1}) <= 0 under the configured fields and
\* reverse flag: in the random path for any input, in the presorted path
\* when every input stream is itself ordered.
C2_OutputOrdered ==
    (Completed /\ (presorted_input => InputsSorted)) => IsSorted(OutNodes)

\* a run that merged temp files in more than one pass and wrote three
\* records, not all of the same key, in reverse order
C2_Witness ==
    /\ Completed
    /\ reverse
    /\ "emfile" \in events
    /\ Len(out) = 3
    /\ rwrecCompare(NodeOf(out[1]), NodeOf(out[3])) < 0

\* C3: in the presorted path, whatever the number of inputs and whichever
\* opens fail recoverably, when no read fails and every write is accepted a
\* run that completes has written exactly the records of the inputs, each
\* once.
C3_PresortedTotality ==
    (Completed /\ presorted_input
       /\ events \cap {"read_err", "read_temp", "write_nonfatal"} = {})
        => SameBag(out, Flatten(instreams))

\* C4: when the inputs hold no record at all, in either path, no record is
\* written to the final output and main writes the header before closing.
C4_EmptyInput ==
    (Completed /\ TotalRead = 0) => (out = <<>> /\ out_hdr)

\* C5: rwrecCompare with reverse set returns the negation of what it returns
\* with reverse cleared, and the buffer sorted with reverse set is the buffer
\* sorted with reverse cleared read backwards, up to the order inside groups
\* of nodes that compare equal.
C5_ReverseNegates ==
    pc = "cmp_done" =>
      /\ cmp_rev.val = -cmp_fwd.val
      /\ \A f \in cmp_fwd.sorted, r \in cmp_rev.sorted :
           /\ Len(r) = Len(f)
           /\ \A i \in 1 .. Len(f) : rwrecCompare(r[i], f[Len(f) + 1 - i]) = 0

\* two nodes a plug-in field tells apart by more than one, in a buffer of
\* three that no arrangement orders both ways
C5_Witness ==
    /\ pc = "cmp_done"
    /\ cmp_fwd.val = -2
    /\ cmp_rev.val = 2
    /\ Len(record_buffer) = 3
    /\ cmp_fwd.sorted # {}
    /\ cmp_fwd.sorted \cap cmp_rev.sorted = {}

\* C6: a sorted sequence given as the single presorted input, with every
\* call into the environment succeeding, is written to the final output
\* record for record in the same order.
C6_Idempotent ==
    (Completed /\ presorted_input /\ num_inputs = 1 /\ InputsSorted
       /\ faults = 0)
        => out = instreams[1]

\* a single sorted input of three records, two of them different records of
\* the same key
C6_Witness ==
    /\ Completed /\ presorted_input /\ num_inputs = 1 /\ InputsSorted
    /\ faults = 0
    /\ Len(out) = 3
    /\ out[1] # out[2]
    /\ rwrecCompare(NodeOf(out[1]), NodeOf(out[2])) = 0

\* C7: a read error on an input is fatal in both paths: no run in which
\* skStreamReadRecord failed with something other than EOF completes
\* successfully.
C7_ReadErrorFatal ==
    Completed => "read_err" \notin events

\* C8: in a run in which a read of an input failed, no record is ever in
\* the final output.
C8_NoPartialOutput ==
    "read_err" \in events => out = <<>>

\* C9: a failure to read a temp file is fatal, also when the read refills a
\* scratch node during a merge pass: no run in which such a read failed
\* completes successfully.
C9_TempReadFatal ==
    Completed => "read_temp" \notin events

\* C10: at every write of a record to the final output, a fatal status ends
\* the process with failure and a non-fatal status lets the sort go on (the
\* read that follows the write in the same loop iteration may still end the
\* process when the key extraction of the record read fails).
C10_WriteStatus ==
    [][(nwrites' = nwrites + 1) =>
         /\ (last_rv' = "FATAL") => (pc' = "failed")
         /\ (last_rv' = "NONFATAL") =>
              /\ pc' \notin {"crashed", "done"}
              /\ (pc' = "failed") => ("extract" \in events' /\ "extract" \notin events)
      ]_vars

\* a run that went on after a non-fatal status and wrote the next record
C10_Witness ==
    /\ "write_nonfatal" \in events
    /\ last_rv = "OK"
    /\ nwrites >= 2
    /\ Len(out) >= 1

\* the process was ended by the exit(EXIT_FAILURE) of rwrecCompare
ComparatorExit == pc = "exited"

\* C11: when the comparison routine of a plug-in field reports an error, in
\* the in-memory sort or in a merge heap, the process has ended with failure
\* and the final output holds no record.
C11_ComparatorNoOutput ==
    ComparatorExit => (out = <<>> /\ nwrites = 0)

\* C12: the key extraction of a plug-in field has run exactly once for every
\* record read, in both paths; and in the step in which an extraction fails
\* the process ends with failure and the node of that record is neither
\* stored in the sort buffer or in a merge slot, nor entered in the heap, nor
\* counted among the records read.
C12_ExtractOnce ==
    /\ [](rec_to_bin_calls =
             key_num_fields * TotalRead + (IF "extract" \in events THEN 1 ELSE 0))
    /\ [][("extract" \in events' /\ "extract" \notin events) =>
             /\ pc' = "failed"
             /\ UNCHANGED <<record_buffer, recs, heap, instreams>>
         ]_vars

\* an extraction failed after records had been read and their keys extracted
C12_Witness ==
    /\ pc = "exit_failure"
    /\ "extract" \in events
    /\ TotalRead >= 2
    /\ rec_to_bin_calls = TotalRead + 1

\* the temp files of the current pass whose handles skTempFileOpen returned
PassOpened == {f \in opened : tmp_idx_a <= f /\ f <= tmp_idx_b}

\* skTempFileOpen failed with EMFILE or ENOMEM in this step of the open loop
EmfileStep ==
    /\ pc = "m_open"
    /\ \/ faults' = faults + 1
       \/ "emfile_fatal" \in events' /\ "emfile_fatal" \notin events

\* C13: in a pass of mergeFiles over the temp files [a, b], when the open of
\* file j fails for lack of handles or memory after at least one file of the
\* pass was opened, the pass is cut to [a, j - 1], it merges the readers it
\* has into the intermediate file, and file j is the first file of the next
\* pass; when it is the first open of the pass that fails, or the open fails
\* for another reason, the process ends with failure.
C13_OpenFailure ==
    [][/\ (EmfileStep /\ PassOpened # {}) =>
             /\ tmp_idx_b' = j - 1
             /\ tmp_idx_b' < temp_file_idx
             /\ UNCHANGED <<j, open_count, heap, fps, tmp_idx_a>>
             /\ pc' = "m_dest"
       /\ (EmfileStep /\ PassOpened = {}) => (pc' = "failed")
       /\ (pc = "m_dest" /\ tmp_idx_b < temp_file_idx) =>
             /\ fp_intermediate'
             /\ temp_file_idx' = tmp_idx_intermediate
       /\ (pc = "m_end" /\ pc' = "m_begin") => (tmp_idx_a' = j)
       /\ (pc = "m_open" /\ "open_temp" \in events') => (pc' = "failed")
      ]_vars

\* C14: when a merge pass has ended the process because skTempFileOpen
\* failed with EMFILE or ENOMEM, no temp file of that pass had been opened
\* before, not even one that turned out to be empty.
C14_EmfileFatalOnlyFirst ==
    "emfile_fatal" \in events => PassOpened = {}

\* appNextInput returned -2 in this step of the open loop of sortPresorted
OutOfHandlesStep ==
    /\ pc = "p_open"
    /\ "emfile_input" \in events'
    /\ "emfile_input" \notin events

\* C15: in sortPresorted, when appNextInput reports that memory or file
\* handles ran out, the process ends with failure if no input of the pass
\* is open, and otherwise the pass merges the inputs it has opened into the
\* intermediate temp file.
C15_OutOfHandles ==
    [][/\ (OutOfHandlesStep /\ open_count = 0) => (pc' = "failed")
       /\ (OutOfHandlesStep /\ open_count > 0) =>
             (pc' = "p_seed" /\ fp_intermediate' /\ ~no_more')
      ]_vars

\* mergeFiles is running
InMergeFiles ==
    pc \in {"m_begin", "m_open", "m_dest", "m_heap", "m_drain", "m_end"}

\* the temp-file handles mergeFiles holds: those skTempFileOpen returned and
\* fclose has not been called on, and the intermediate file it writes
HandlesHeld == Cardinality(opened) + (IF fp_intermediate THEN 1 ELSE 0)

\* C16: at every instant of mergeFiles, in every pass, the merger holds at
\* most MAX_MERGE_FILES + 1 open temp-file handles.
C16_HandleBound ==
    InMergeFiles => HandlesHeld <= MAX_MERGE_FILES + 1

\* C17: in sortRandom the capacity of the buffer in nodes never exceeds the
\* ceiling buffer_max_recs, which starts at sort_buffer_size / node_size
\* rounded down and is never raised (a failed realloc lowers it), so the
\* buffer never holds more than sort_buffer_size bytes.
C17_BufferBound ==
    /\ [](pc # "main" =>
             /\ buffer_recs <= buffer_max_recs
             /\ buffer_max_recs <= sort_buffer_size \div node_size
             /\ Len(record_buffer) <= buffer_recs
             /\ Len(record_buffer) * node_size <= sort_buffer_size)
    /\ [][/\ (pc = "main") => (buffer_max_recs' = sort_buffer_size' \div node_size)
          /\ (pc # "main") => (buffer_max_recs' <= buffer_max_recs)
         ]_vars

\* a realloc failed: the ceiling was lowered to the number of records held,
\* and the buffer was written out at that size
C17_Witness ==
    /\ "realloc_fail" \in events
    /\ buffer_recs = buffer_max_recs
    /\ buffer_max_recs < sort_buffer_size \div node_size
    /\ Len(tmp) >= 1
    /\ TotalRead = MaxRecs

FatalExit == pc \in {"exit_failure", "exited"}

AllInputsOpenable ==
    /\ presorted_input
    /\ num_inputs <= MAX_MERGE_FILES
    /\ "emfile_input" \notin events
    /\ "open_input" \notin events

\* C20: in the presorted path, when the inputs number at most
\* MAX_MERGE_FILES (exactly MAX_MERGE_FILES included) and every one is
\* opened, the records go directly to the final output: no temp file ever
\* holds a record and mergeFiles is not entered.
C20_DirectOutput ==
    AllInputsOpenable =>
        /\ \A i \in 1 .. Len(tmp) : tmp[i].data = <<>>
        /\ pc # "m_enter"
        /\ ~InMergeFiles

\* C21: in the random path, when the inputs end with records in the buffer
\* and nothing was spilled, the buffer is sorted and written record by
\* record to the final output, sortRandom returns -1 so that main skips
\* mergeFiles, and no temp file is created in the whole run.
C21_SingleRun ==
    /\ []((~presorted_input /\ temp_file_idx = -1) =>
             (Len(tmp) = 0 /\ pc # "m_enter" /\ ~InMergeFiles))
    /\ [](pc = "r_out" =>
             /\ temp_file_idx = -1
             /\ record_buffer # <<>>
             /\ IsSorted(record_buffer)
             /\ SameBag(record_buffer,
                        [i \in 1 .. TotalRead |-> NodeOf(Flatten(instreams)[i])])
             /\ ("write_nonfatal" \notin events =>
                    out = [i \in 1 .. j |-> RecOf(record_buffer[i])]))
    /\ [][/\ (pc = "r_last" /\ record_buffer # <<>> /\ temp_file_idx = -1) =>
                (pc' \in {"r_out", "exited"})
          /\ (pc = "r_out" /\ pc' \notin {"r_out", "failed"}) =>
                (pc' = "main_tail" /\ j = Len(record_buffer))
         ]_vars

\* a run over two inputs that never spilled and wrote its three records
C21_Witness ==
    /\ Completed
    /\ ~presorted_input
    /\ Len(tmp) = 0
    /\ Len(instreams) >= 2
    /\ Len(out) = MaxRecs
    /\ Len(record_buffer) = MaxRecs
    /\ record_buffer[1] # record_buffer[MaxRecs]

\* no call mergeFiles made on a temp file has failed, and it has not used an
\* undefined slot
MergeUndisturbed ==
    events \cap {"emfile", "emfile_fatal", "open_temp", "read_temp",
                 "read_temp_first", "create_temp", "write_temp", "close_temp",
                 "undefined"} = {}

\* the nodes of the temp files f .. g, in the order of the files
TmpNodes(f, g) == Flatten([i \in 1 .. (g - f + 1) |-> tmp[f + i].data])

\* C22: when mergeFiles is entered with MAX_MERGE_FILES + 1 temp files and
\* no open fails, it makes two passes and no more: a cascade pass over the
\* first MAX_MERGE_FILES files, whose nodes it writes to an intermediate
\* file, and a final pass over the remaining file and the intermediate file
\* that writes to the final output.
C22_OneCascadePass ==
    (merge_entry = MAX_MERGE_FILES /\ MergeUndisturbed) =>
        /\ Len(pass_log) <= 2
        /\ Len(pass_log) >= 1 =>
              pass_log[1] = [a |-> 0, b |-> MAX_MERGE_FILES - 1, final |-> FALSE]
        /\ Len(pass_log) = 2 =>
              /\ pass_log[2] = [a |-> MAX_MERGE_FILES, b |-> MAX_MERGE_FILES + 1,
                                final |-> TRUE]
              /\ SameBag(tmp[MAX_MERGE_FILES + 2].data,
                         TmpNodes(0, MAX_MERGE_FILES - 1))
        /\ pc \in {"main_tail", "done"} =>
              /\ Len(pass_log) = 2
              /\ ("write_nonfatal" \notin events =>
                     SameBag(OutNodes, TmpNodes(MAX_MERGE_FILES, MAX_MERGE_FILES + 1)))

\* mergeFiles was entered with three runs of one record each and has
\* returned after its second pass
C22_Witness ==
    /\ Completed
    /\ merge_entry = MAX_MERGE_FILES
    /\ MergeUndisturbed
    /\ Len(pass_log) = 2
    /\ Len(out) = MAX_MERGE_FILES + 1
    /\ \A i \in 1 .. (MAX_MERGE_FILES + 1) : tmp[i].data # <<>>

\* the process has ended other than by the normal exit of main
Aborted == pc \in {"failed", "exit_failure", "exited", "crashed"}

\* C23: in the random path, when the inputs hold at least k times
\* sort_buffer_size / node_size records, sortRandom has written at least k
\* temp files, each sorted, when mergeFiles is called, and at least two when
\* the inputs hold more records than that ceiling; the buffer alone is
\* written to the output only for fewer records; and the run does not end
\* in failure unless a call of the environment or a plug-in fails.
C23_SpillCount ==
    LET ceiling == sort_buffer_size \div node_size
    IN /\ pc = "m_enter" =>
             /\ \A k \in 1 .. MaxRecs :
                   (TotalRead >= k * ceiling) => (Len(tmp) >= k)
             /\ (TotalRead > ceiling) => (Len(tmp) >= 2)
             /\ temp_file_idx = Len(tmp) - 1
             /\ \A i \in 1 .. Len(tmp) : tmp[i].exists /\ IsSorted(tmp[i].data)
             /\ SameBag(TmpNodes(0, Len(tmp) - 1),
                        [i \in 1 .. TotalRead |-> NodeOf(Flatten(instreams)[i])])
       /\ pc = "r_out" => (TotalRead < ceiling)
       /\ (events = {} /\ key_num_fields = 0) => ~Aborted
       /\ (Completed /\ events = {}) => (Len(out) = TotalRead)

\* the inputs held more records than the buffer may hold: two runs are on
\* disk when mergeFiles is called
C23_Witness ==
    /\ pc = "m_enter"
    /\ ~presorted_input
    /\ events = {}
    /\ TotalRead > sort_buffer_size \div node_size
    /\ Len(tmp) = 2
    /\ Len(tmp[1].data) = sort_buffer_size \div node_size

\* the temp files mergeFiles has still to merge: those of the active range
\* [tmp_idx_a, temp_file_idx]
ActiveFiles == temp_file_idx - tmp_idx_a + 1

\* C24: mergeFiles terminates under every pattern of recoverable open
\* failures: every pass that does not write to the final output leaves
\* fewer temp files to the passes that follow than it found itself, so that
\* a pass whose upper bound is the last temp file is eventually reached.
C24_MergeProgress ==
    [][(pc = "m_dest" /\ pc' = "m_heap" /\ ~no_more') =>
          (temp_file_idx' - tmp_idx_b < ActiveFiles)
      ]_vars

\* a pass of mergeFiles is writing the nodes of its files
MergeWriting == pc \in {"m_heap", "m_drain"}

\* C25: a pass of mergeFiles writes to the final output if and only if its
\* upper bound, cut down or not, is the last index of the active set;
\* otherwise the intermediate file created at the start of the pass becomes
\* the last file of the active set and receives every node of the pass.
C25_PassDestination ==
    /\ [][/\ (pc = "m_dest" /\ pc' = "m_heap") =>
                /\ fp_intermediate' <=> (tmp_idx_b # temp_file_idx)
                /\ no_more' <=> (tmp_idx_b = temp_file_idx)
                /\ tmp_idx_intermediate = Len(tmp) - 1
                /\ temp_file_idx' = IF tmp_idx_b = temp_file_idx
                                    THEN temp_file_idx ELSE tmp_idx_intermediate
          /\ (MergeWriting /\ fp_intermediate) =>
                /\ UNCHANGED <<out, nwrites>>
                /\ \A i \in 1 .. Len(tmp) :
                      (i # tmp_idx_intermediate + 1) => (tmp'[i] = tmp[i])
          /\ (MergeWriting /\ ~fp_intermediate) => UNCHANGED tmp
         ]_vars
    /\ []((pc = "m_end" /\ MergeUndisturbed) =>
            IF fp_intermediate
            THEN SameBag(tmp[tmp_idx_intermediate + 1].data,
                         TmpNodes(tmp_idx_a, tmp_idx_b))
            ELSE "write_nonfatal" \notin events =>
                    SameBag(OutNodes, TmpNodes(tmp_idx_a, tmp_idx_b)))

\* a final pass has written the nodes of the intermediate file that the pass
\* before it had filled
C25_Witness ==
    /\ pc = "m_end"
    /\ MergeUndisturbed
    /\ Len(pass_log) = 2
    /\ ~pass_log[1].final
    /\ pass_log[2].final
    /\ tmp[tmp_idx_b + 1].data # <<>>
    /\ Len(out) = MaxRecs

\* C26: the pass over [a, b] removes every temp file with an index in
\* [a, b] and no other, and the next pass starts at b + 1: the ranges of the
\* passes follow one another in increasing order from index 0, and when
\* mergeFiles has returned they cover every index of the active set once.
C26_ConsumedRanges ==
    /\ [][(pc = "m_end") =>
             /\ \A i \in 1 .. Len(tmp) :
                   /\ tmp'[i].data = tmp[i].data
                   /\ tmp'[i].exists <=>
                        (tmp[i].exists /\ ~(tmp_idx_a <= i - 1 /\ i - 1 <= tmp_idx_b))
             /\ Len(tmp') = Len(tmp)
             /\ tmp_idx_a' = tmp_idx_b + 1
         ]_vars
    /\ [](\A k \in 1 .. Len(pass_log) :
             /\ pass_log[k].a = IF k = 1 THEN 0 ELSE pass_log[k - 1].b + 1
             /\ pass_log[k].a <= pass_log[k].b
             /\ pass_log[k].b <= temp_file_idx
             /\ pass_log[k].final => (k = Len(pass_log)))
    /\ []((merge_entry >= 0 /\ pc \in {"main_tail", "done"}) =>
             /\ pass_log # <<>>
             /\ pass_log[Len(pass_log)].final
             /\ pass_log[Len(pass_log)].b = temp_file_idx
             /\ \A i \in 0 .. temp_file_idx :
                   Cardinality({k \in 1 .. Len(pass_log) :
                      pass_log[k].a <= i /\ i <= pass_log[k].b}) = 1)

\* two passes, the second over more than one file, have consumed the active
\* set
C26_Witness ==
    /\ Completed
    /\ Len(pass_log) = 2
    /\ pass_log[2].a < pass_log[2].b
    /\ pass_log[2].b = temp_file_idx
    /\ \A i \in 1 .. (temp_file_idx + 1) : ~tmp[i].exists

\* C27: the step that ends a pass of mergeFiles closes every temp-file
\* reader the pass opened, those of files found empty included, so that no
\* reader is open when the next pass begins or mergeFiles returns.
C27_ReadersClosed ==
    [][(pc = "m_end") =>
          /\ PassOpened \cap opened' = {}
          /\ opened' = {}
      ]_vars

\* the indices of the temp files that exist
ExistingTemps == {f \in 0 .. (Len(tmp) - 1) : tmp[f + 1].exists}

\* C28: in the random path, sortRandom followed by mergeFiles, as long as
\* the process runs the temp files that exist are those of a range of
\* indices without gaps that starts at the pass start tmp_idx_a, every file
\* of the active range tmp_idx_a .. temp_file_idx exists, and a temp file
\* stops existing only when the pass whose range holds it ends or when the
\* process exits.
C28_ContiguousTemps ==
    /\ []((~presorted_input /\ pc # "exit_failure") =>
             /\ \A f \in ExistingTemps :
                   /\ tmp_idx_a <= f
                   /\ \A g \in tmp_idx_a .. f : g \in ExistingTemps
             /\ \A f \in tmp_idx_a .. temp_file_idx : f \in ExistingTemps)
    /\ [][~presorted_input =>
             \A i \in 1 .. Len(tmp) :
                (tmp[i].exists /\ ~tmp'[i].exists) =>
                   \/ pc = "m_end" /\ tmp_idx_a <= i - 1 /\ i - 1 <= tmp_idx_b
                   \/ pc' \in {"exit_failure", "done"}
         ]_vars

\* the second pass of mergeFiles in the random path is writing, with more
\* than one file in its range and the files of the first pass gone
C28_Witness ==
    /\ ~presorted_input
    /\ pc = "m_heap"
    /\ tmp_idx_a > 0
    /\ tmp_idx_a < tmp_idx_b
    /\ ExistingTemps = tmp_idx_a .. Len(tmp) - 1

\* C29: every temp file is a run: the nodes of each temp file sortRandom
\* writes, and of each intermediate file a pass of mergeFiles or of
\* sortPresorted writes when the inputs of the presorted path are sorted,
\* are in an order in which rwrecCompare of each node and the next is <= 0.
C29_RunsSorted ==
    (~presorted_input \/ InputsSorted) =>
        \A f \in 1 .. Len(tmp) : IsSorted(tmp[f].data)

\* in the random path a pass has written an intermediate file of two nodes
\* or more with different keys, from a temp file sortRandom had to reorder
C29_Witness ==
    /\ ~presorted_input
    /\ pc = "m_end"
    /\ fp_intermediate
    /\ Len(tmp[tmp_idx_intermediate + 1].data) >= 2
    /\ rwrecCompare(tmp[tmp_idx_intermediate + 1].data[1],
                    tmp[tmp_idx_intermediate + 1].data[2]) < 0
    /\ Len(instreams[1]) >= 2
    /\ rwrecCompare(NodeOf(instreams[1][1]), NodeOf(instreams[1][2])) > 0

\* the reader of slot s has a node left in its temp file
HasMore(s) == fps[s].pos < Len(tmp[fps[s].file + 1].data)

\* the node its reader of slot s reads next
NextNode(s) == tmp[fps[s].file + 1].data[fps[s].pos + 1]

\* this step hands the node to the destination of the pass, which takes it
\* unless it is the final output answering with a non-fatal status
Emitted(node) ==
    IF fp_intermediate
    THEN tmp' = AppendTmp(tmp, tmp_idx_intermediate, node)
    ELSE /\ nwrites' = nwrites + 1
         /\ \/ out' = Append(out, RecOf(node))
            \/ last_rv' = "NONFATAL" /\ out' = out

\* slot s is refilled with the next node of its reader and stays, or has no
\* node left
Refilled(s) ==
    /\ HasMore(s)
    /\ recs' = [recs EXCEPT ![s] = NextNode(s)]
    /\ fps' = [fps EXCEPT ![s].pos = @ + 1]

\* C30: in a pass of mergeFiles, each turn of the loop that runs while the
\* heap holds two readers or more emits a node that rwrecCompare orders
\* before or with the scratch node of every reader in the heap, then
\* refills the slot of that reader from its file and keeps it in the heap,
\* or removes the reader when its file has no node left; once one reader
\* remains its scratch node and then every node left in its file go, in
\* the order of the file, to the same destination.
C30_HeapProtocol ==
    [][/\ (pc = "m_heap" /\ Cardinality(heap) >= 2 /\ pc' # "failed") =>
             /\ lowest' \in heap
             /\ \A y \in heap : rwrecCompare(recs[lowest'], recs[y]) <= 0
             /\ Emitted(recs[lowest'])
             /\ IF HasMore(lowest')
                THEN Refilled(lowest') /\ heap' = heap
                ELSE heap' = heap \ {lowest'} /\ recs' = recs
       /\ (pc = "m_drain" /\ pc' # "failed") =>
             /\ Emitted(recs[lowest])
             /\ fp_intermediate' = fp_intermediate
             /\ IF HasMore(lowest)
                THEN Refilled(lowest) /\ pc' = "m_drain"
                ELSE pc' = "m_end"
      ]_vars

\* no read of a temp file failed and the final output refused no record
TempIoClean ==
    events \cap {"read_temp", "read_temp_first", "write_nonfatal"} = {}

\* the nodes the pass has written to its destination
PassWritten ==
    IF fp_intermediate THEN tmp[tmp_idx_intermediate + 1].data ELSE OutNodes

\* C31: in a pass of mergeFiles the reader of an empty temp file never
\* enters the heap, and when the pass has finished writing, its destination
\* holds exactly the nodes of the files of its range, which are those of the
\* non-empty files: nothing at all when every file of the range is empty.
C31_EmptyTempFiles ==
    /\ (pc \in {"m_open", "m_dest", "m_heap"}) =>
          \A s \in heap : tmp[fps[s].file + 1].data # <<>>
    /\ (pc = "m_end" /\ TempIoClean) =>
          SameBag(PassWritten, TmpNodes(tmp_idx_a, tmp_idx_b))

\* C32: in the random path, when sortRandom returns index 0 (one temp
\* file), main still calls mergeFiles, which makes one final pass over
\* [0, 0] and, when the final output refuses no record, leaves in it the
\* nodes of that file, unchanged and in the order of the file.
C32_SingleTempFile ==
    /\ (~presorted_input /\ pc \in {"main_tail", "done"} /\ tmp # <<>>) =>
          merge_entry >= 0
    /\ (~presorted_input /\ pc \in {"main_tail", "done"} /\ merge_entry = 0
          /\ "write_nonfatal" \notin events) =>
          /\ pass_log = <<[a |-> 0, b |-> 0, final |-> TRUE]>>
          /\ OutNodes = tmp[1].data

\* C33: when the buffer of sortRandom is full below its ceiling and grows,
\* the capacity asked of realloc, which is the capacity after the call, is
\* the lesser of buffer_recs + buffer_chunk_recs and buffer_max_recs, with
\* buffer_chunk_recs the initial chunk buffer_max_recs / num_chunks.
C33_GrowRequest ==
    [][(pc = "r_read" /\ buffer_recs' > buffer_recs) =>
          /\ buffer_chunk_recs = buffer_max_recs \div num_chunks
          /\ buffer_recs' =
                IF buffer_recs + buffer_chunk_recs < buffer_max_recs
                THEN buffer_recs + buffer_chunk_recs
                ELSE buffer_max_recs
      ]_vars

\* realloc fails in this step
ReallocFails == "realloc_fail" \notin events /\ "realloc_fail" \in events'

\* the record read in this step fills the buffer
FillStep ==
    /\ pc = "r_read"
    /\ Len(record_buffer) + 1 = buffer_recs
    /\ Len(Flatten(instreams')) = Len(Flatten(instreams)) + 1

\* the buffer, with the record read in this step, goes ordered to a new temp
\* file and is empty afterwards
SpillStep ==
    /\ Len(tmp') = Len(tmp) + 1
    /\ temp_file_idx' = Len(tmp)
    /\ \A i \in 1 .. Len(tmp) : tmp'[i] = tmp[i]
    /\ tmp'[Len(tmp')].exists
    /\ IsSorted(tmp'[Len(tmp')].data)
    /\ Len(tmp'[Len(tmp')].data) = Len(record_buffer) + 1
    /\ \A i \in 1 .. Len(record_buffer) :
          Count(tmp'[Len(tmp')].data, record_buffer[i]) >=
              Count(record_buffer, record_buffer[i])
    /\ record_buffer' = <<>>

\* C34: when the realloc that grows the buffer of sortRandom fails, the
\* records in the buffer are kept, buffer_recs and buffer_max_recs both
\* become the number of records in it, and the buffer is sorted and written
\* to a new temp file in the same step; from then on capacity and ceiling
\* never change, no other growth is attempted, and every fill of the buffer
\* writes a temp file.
C34_GrowFailure ==
    /\ [][ReallocFails =>
             /\ FillStep
             /\ buffer_recs < buffer_max_recs
             /\ buffer_recs' = Len(record_buffer) + 1
             /\ buffer_max_recs' = Len(record_buffer) + 1
             /\ (pc' = "r_read") => SpillStep
             /\ (pc' # "r_read") =>
                   /\ pc' \in {"failed", "exited"}
                   /\ Len(record_buffer') = Len(record_buffer) + 1
                   /\ \A i \in 1 .. Len(record_buffer) :
                         Count(record_buffer', record_buffer[i]) >=
                             Count(record_buffer, record_buffer[i])
         ]_vars
    /\ [][("realloc_fail" \in events) =>
             /\ buffer_recs = buffer_max_recs
             /\ UNCHANGED <<buffer_recs, buffer_max_recs>>
             /\ (FillStep /\ pc' = "r_read") => SpillStep
         ]_vars

\* after a failed growth pinned the buffer to one record, the second fill
\* has written the second temp file
C34_Witness ==
    /\ "realloc_fail" \in events
    /\ pc = "r_read"
    /\ buffer_recs = 1
    /\ buffer_max_recs < sort_buffer_size \div node_size
    /\ Len(tmp) = 2
    /\ record_buffer = <<>>

\* calloc fails in this step for a chunk that is not below the minimum
AllocRetry == pc = "r_alloc" /\ pc' = "r_alloc" /\ faults' = faults + 1

\* C35: when the calloc of the initial chunk fails and sortRandom tries
\* again, num_chunks has been doubled, and the chunk asked for next is
\* buffer_max_recs / num_chunks with the new num_chunks.
C35_ChunksDoubled ==
    /\ [][AllocRetry => (num_chunks' = 2 * num_chunks)]_vars
    /\ [][(pc = "r_alloc") =>
              (buffer_chunk_recs' = buffer_max_recs \div num_chunks)]_vars

\* the random path with the process always taking its next step in the
\* loop that allocates the initial chunk
SpecRandomLive == SpecRandom /\ WF_vars(RandomAlloc)

\* C36: the loop of sortRandom that allocates the initial chunk always
\* ends, with the chunk allocated or with a fatal error: each retry raises
\* num_chunks, and a retry happens only while the chunk that failed is not
\* below MIN_IN_CORE_RECORDS, which bounds num_chunks; the fatal error comes
\* only after the calloc of a chunk below MIN_IN_CORE_RECORDS failed.
C36_AllocTerminates ==
    /\ (pc = "r_alloc") ~> (pc \in {"r_open", "failed"})
    /\ [][AllocRetry =>
             /\ num_chunks' > num_chunks
             /\ num_chunks * MIN_IN_CORE_RECORDS <= buffer_max_recs
         ]_vars
    /\ [][(pc = "r_alloc" /\ pc' # "r_alloc") =>
             /\ pc' \in {"r_open", "failed"}
             /\ (pc' = "r_open") => (faults' = faults /\ buffer_recs' = buffer_chunk_recs')
             /\ (pc' = "failed") =>
                   /\ faults' = faults + 1
                   /\ "calloc" \in events'
                   /\ buffer_chunk_recs' < MIN_IN_CORE_RECORDS
         ]_vars

\* the calloc of a chunk below the minimum has failed: fatal error
C36_Witness ==
    /\ pc = "failed"
    /\ events = {"calloc"}
    /\ buffer_chunk_recs < MIN_IN_CORE_RECORDS
    /\ buffer_chunk_recs = buffer_max_recs \div num_chunks

\* -1, 0 or 1 as v is negative, zero or positive
SignOf(v) == IF v < 0 THEN -1 ELSE IF v > 0 THEN 1 ELSE 0

\* how field f alone orders a and b: -1, 0 or 1
FieldOrder(f, a, b) ==
    CASE f = "sport" -> SignOf(rwRecGetSPort(a) - rwRecGetSPort(b))
      [] f = "proto" -> SignOf(rwRecGetProto(a) - rwRecGetProto(b))
      [] OTHER -> SignOf(compareMaps(PluginKey(a), PluginKey(b)))

\* the fields of sort_fields on which a and b differ, by position
Differing(a, b) ==
    {i \in 1 .. Len(sort_fields) : FieldOrder(sort_fields[i], a, b) # 0}

\* the order of a and b by the first field of sort_fields on which they
\* differ, turned round when reverse is set
Lexicographic(a, b) ==
    IF Differing(a, b) = {} THEN 0
    ELSE LET i == CHOOSE k \in Differing(a, b) : \A m \in Differing(a, b) : k <= m
             s == FieldOrder(sort_fields[i], a, b)
         IN IF reverse THEN -s ELSE s

\* C37: rwrecCompare orders two nodes by the first field of the list on
\* which they differ: its result has the sign that field gives, turned
\* round when reverse is set, and is 0 exactly when the nodes agree on every
\* field of the list; over lists of built-in fields the result is -1, 0 or
\* 1, compare(a, b) = -compare(b, a), and the order is transitive.
C37_Lexicographic ==
    (pc \in {"cmp", "cmp_rev"}) =>
       \A x, y, z \in Range(record_buffer) :
          /\ SignOf(rwrecCompare(x, y)) = Lexicographic(x, y)
          /\ (rwrecCompare(x, y) = 0) <=> (Differing(x, y) = {})
          /\ ("plugin" \notin Range(sort_fields)) =>
                /\ rwrecCompare(x, y) \in {-1, 0, 1}
                /\ rwrecCompare(x, y) = -rwrecCompare(y, x)
                /\ (rwrecCompare(x, y) <= 0 /\ rwrecCompare(y, z) <= 0) =>
                       (rwrecCompare(x, z) <= 0)

\* with reverse set, two nodes that agree on the first of two built-in
\* fields are ordered against the second, and a third node lies between
C37_Witness ==
    /\ pc = "cmp_rev"
    /\ reverse
    /\ sort_fields = <<"proto", "sport">>
    /\ Len(record_buffer) = 3
    /\ rwRecGetProto(record_buffer[1]) = rwRecGetProto(record_buffer[2])
    /\ rwRecGetSPort(record_buffer[1]) < rwRecGetSPort(record_buffer[2])
    /\ rwrecCompare(record_buffer[1], record_buffer[2]) = 1
    /\ rwrecCompare(record_buffer[2], record_buffer[3]) = 1
    /\ rwrecCompare(record_buffer[1], record_buffer[3]) = 1

\* C38: in the random path, when input ends with a temp file written and
\* records in the buffer, the buffer goes ordered to one more temp file;
\* sortRandom writes nothing to the final output once a temp file exists;
\* main then calls mergeFiles with the index of the last temp file, which
\* starts at file 0 with every file of the range in place, and the final
\* output is written only by the final pass.
C38_LastBatchSpilled ==
    /\ [][(~presorted_input /\ pc = "r_last" /\ temp_file_idx >= 0
             /\ record_buffer # <<>>) =>
             /\ UNCHANGED <<out, nwrites>>
             /\ pc' \in {"m_enter", "failed", "exited"}
             /\ (pc' = "m_enter") =>
                   /\ Len(tmp') = Len(tmp) + 1
                   /\ temp_file_idx' = temp_file_idx + 1
                   /\ \A i \in 1 .. Len(tmp) : tmp'[i] = tmp[i]
                   /\ tmp'[Len(tmp')].exists
                   /\ IsSorted(tmp'[Len(tmp')].data)
                   /\ SameBag(tmp'[Len(tmp')].data, record_buffer)
         ]_vars
    /\ []((~presorted_input /\ temp_file_idx >= 0
             /\ pc \in {"r_read", "r_last", "r_out", "m_enter"}) =>
               (out = <<>> /\ nwrites = 0))
    /\ [][(~presorted_input /\ pc = "m_enter") =>
             /\ pc' = "m_begin"
             /\ merge_entry' = Len(tmp) - 1
             /\ tmp_idx_a' = 0
             /\ ExistingTemps = 0 .. merge_entry'
         ]_vars
    /\ [][(~presorted_input /\ InMergeFiles /\ nwrites' # nwrites) =>
             (no_more /\ ~fp_intermediate /\ tmp_idx_b = temp_file_idx)
         ]_vars

\* mergeFiles begins over two temp files, the second of them the last batch
C38_Witness ==
    /\ ~presorted_input
    /\ pc = "m_begin"
    /\ pass_log = <<>>
    /\ merge_entry = 1
    /\ Len(tmp[1].data) = 2
    /\ Len(tmp[2].data) = 1
    /\ events = {}
    /\ out = <<>>

\* the open of temp file j fails for lack of handles or memory and the pass
\* goes on with the files it has
PassCut == EmfileStep /\ pc' = "m_dest"

\* C39: when a pass of mergeFiles removes its temp files, every node of
\* each of them has been written to the destination of the pass (the final
\* output having refused no record); a temp file whose open failed for
\* lack of handles or memory is left out of the range of the pass, is not
\* removed by it, and keeps its nodes.
C39_RemovedAfterWritten ==
    /\ []((pc = "m_end" /\ "write_nonfatal" \notin events) =>
             \A f \in tmp_idx_a .. tmp_idx_b :
                \A x \in Range(tmp[f + 1].data) :
                   Count(PassWritten, x) >= Count(TmpNodes(tmp_idx_a, tmp_idx_b), x))
    /\ [][PassCut => (tmp_idx_b' = j - 1 /\ tmp'[j + 1] = tmp[j + 1])]_vars
    /\ [][(InMergeFiles /\ pc' # "exit_failure") =>
             \A i \in 1 .. Len(tmp) :
                /\ (i - 1 > tmp_idx_b /\ i - 1 # tmp_idx_intermediate) =>
                       (tmp'[i] = tmp[i])
                /\ (tmp[i].exists /\ ~tmp'[i].exists) =>
                       (pc = "m_end" /\ tmp_idx_a <= i - 1 /\ i - 1 <= tmp_idx_b)
         ]_vars

\* C40: for every sort_buffer_size a uint64_t holds, buffer_max_recs is
\* sort_buffer_size / node_size, not cut to the width of a uint32_t, and
\* the number of bytes asked of realloc when the buffer grows is the product
\* of node_size and buffer_recs, not its remainder in the width of a
\* uint32_t: the buffer has room for buffer_recs nodes.
C40_SizesFit ==
    (pc = "sz_fill") =>
       /\ buffer_max_recs = sort_buffer_size \div node_size
       /\ (alloc_bytes >= 0) => (alloc_bytes = node_size * buffer_recs)

====
